---- MODULE Spec2Model ----
(***************************************************************************)
(* Model of the retrieval subsystem of travel-ai-planner:                  *)
(*   src/rag_system.py  RAGSystem (construction, load_documents,          *)
(*                      split_documents, create_vector_store,              *)
(*                      load_or_create_vector_store, search, ...)          *)
(*   src/app.py         initialize_rag (st.cache_resource) and main()      *)
(*   src/config.py      RAG_CONFIG, EMBEDDING_CONFIG                       *)
(* One process serves several browser sessions; every script run of a      *)
(* session calls initialize_rag() and then, possibly, searches.            *)
(***************************************************************************)
EXTENDS Integers, Sequences, FiniteSets, TLC

----------------------------------------------------------------------------
(* Bounds of the model *)

\* largest number of entries of the knowledge-base directory
MaxFiles == 2
\* largest explicit k passed to search by a caller
MaxK == 2

----------------------------------------------------------------------------
(* Program constants *)

\* RAG_CONFIG["top_k"]
top_k == 3
\* the k search_by_destination passes to search
DestinationK == 5
\* search's default for k (None): no k given
NoK == -1

\* EMBEDDING_CONFIG["model_name"], and another model an older index may have
\* been built with (same vector dimension), and one of another dimension
CurrentModel == "all-MiniLM-L6-v2"
OtherModelSameDim == "paraphrase-MiniLM-L3-v2"
OtherModelOtherDim == "all-mpnet-base-v2"
Models == {CurrentModel, OtherModelSameDim, OtherModelOtherDim}

ModelDim(m) == IF m = OtherModelOtherDim THEN 768 ELSE 384

Sessions == {"s1", "s2"}
NoSession == "none"

----------------------------------------------------------------------------
(* Text *)

IsSpace(c) == c \in {" ", "\n"}

RECURSIVE LStrip(_)
LStrip(t) == IF t = <<>> THEN <<>>
             ELSE IF IsSpace(Head(t)) THEN LStrip(Tail(t)) ELSE t

RECURSIVE RStrip(_)
RStrip(t) == IF t = <<>> THEN <<>>
             ELSE IF IsSpace(t[Len(t)]) THEN RStrip(SubSeq(t, 1, Len(t) - 1)) ELSE t

\* str.strip()
Strip(t) == RStrip(LStrip(t))

\* file contents of the model: an empty file, and a text with a leading blank
Contents == {<<>>, <<" ", "a">>}

----------------------------------------------------------------------------
(* The knowledge-base directory *)

Stems == {"roma", "madrid", "readme"}
Exts == {".txt", ".md"}

\* str.title() of a lower-case name
Title(name) ==
    CASE name = "roma" -> "Roma"
      [] name = "madrid" -> "Madrid"
      [] name = "tokio" -> "Tokio"
      [] OTHER -> name

\* an entry of the directory: roma.txt, madrid.txt or readme.md; a file that cannot
\* be read has no content to give
Files == { f \in [stem : Stems, ext : Exts, readable : BOOLEAN, content : Contents] :
             /\ (f.ext = ".txt") = (f.stem # "readme")
             /\ (f.ext # ".txt" => f.readable /\ f.content = <<>>)
             /\ (~f.readable => f.content = <<>>) }

DistinctNames(l) ==
    \A i, j \in 1..Len(l) : i # j => (l[i].stem # l[j].stem \/ l[i].ext # l[j].ext)

RECURSIVE ListingsOfLen(_)
ListingsOfLen(n) ==
    IF n = 0 THEN {<<>>}
    ELSE { Append(l, f) : l \in ListingsOfLen(n - 1), f \in Files }

\* what os.listdir can return: entries with pairwise different names
Listings == { l \in UNION { ListingsOfLen(n) : n \in 0..MaxFiles } : DistinctNames(l) }

----------------------------------------------------------------------------
(* Documents, chunks, the vector index *)

NoDestination == "<no destination>"

\* a file name, as the pair of its stem and its extension
FileName(f) == <<f.stem, f.ext>>

\* Document(page_content, metadata {source, destination}); a fragment has the same
\* shape and inherits the metadata of its document
Document(content, source, destination) ==
    [page_content |-> content, source |-> source, destination |-> destination]

NoStore == [present |-> FALSE, model |-> CurrentModel, chunks |-> <<>>]
Store(m, cs) == [present |-> TRUE, model |-> m, chunks |-> cs]

\* the index an earlier run left on disk
PersistedChunks ==
    << Document(<<"a">>, <<"madrid", ".txt">>, "Madrid"),
       Document(<<" ", "a">>, <<"notes", ".txt">>, NoDestination),
       Document(<<"a", " ">>, <<"roma", ".txt">>, "Roma"),
       Document(<<"a">>, <<"roma", ".txt">>, "Roma") >>

\* data/faiss_index: absent, unreadable, or a saved index
DiskAbsent == [state |-> "absent", model |-> CurrentModel, chunks |-> <<>>]
DiskCorrupt == [state |-> "corrupt", model |-> CurrentModel, chunks |-> <<>>]
DiskIndex(m, cs) == [state |-> "ok", model |-> m, chunks |-> cs]

\* the saved index may also hold no fragment at all
InitialDisks ==
    {DiskAbsent, DiskCorrupt, DiskIndex(CurrentModel, <<>>)}
    \cup { DiskIndex(m, PersistedChunks) : m \in Models }

----------------------------------------------------------------------------
(* RAGSystem.load_documents *)

\* the loop that gives up at the first file it cannot read
RECURSIVE LoadLoopAbort(_, _, _, _)
LoadLoopAbort(listing, i, documents, failed) ==
    IF i > Len(listing) THEN [documents |-> documents, failed |-> failed]
    ELSE LET f == listing[i] IN
         IF f.ext = ".txt"
         THEN IF f.readable
              THEN LoadLoopAbort(listing, i + 1,
                                 Append(documents,
                                        Document(f.content, FileName(f), Title(f.stem))),
                                 failed)
              ELSE [documents |-> documents, failed |-> Append(failed, FileName(f))]
         ELSE LoadLoopAbort(listing, i + 1, documents, failed)

\* one pass of the loop over os.listdir: a .txt file that opens and decodes adds a
\* Document, one that does not is reported and skipped, other entries are ignored
RECURSIVE LoadLoop(_, _, _, _)
LoadLoop(listing, i, documents, failed) ==
    IF i > Len(listing) THEN [documents |-> documents, failed |-> failed]
    ELSE LET f == listing[i] IN
         IF f.ext = ".txt"
         THEN IF f.readable
              THEN LoadLoop(listing, i + 1,
                            Append(documents,
                                   Document(f.content, FileName(f), Title(f.stem))),
                            failed)
              ELSE LoadLoop(listing, i + 1, documents, Append(failed, FileName(f)))
         ELSE LoadLoop(listing, i + 1, documents, failed)

\* load_documents on an existing directory: the documents, and the files reported
\* as failed
load_documents(listing) == LoadLoop(listing, 1, <<>>, <<>>)

----------------------------------------------------------------------------
(* RAGSystem.split_documents *)

\* RAG_CONFIG["chunk_size"] and RAG_CONFIG["chunk_overlap"]
chunk_size == 500
chunk_overlap == 50

\* separators=["\n\n", "\n", ".", "!", "?", ",", " ", ""], each as its characters
Separators ==
    << <<"\n", "\n">>, <<"\n">>, <<".">>, <<"!">>, <<"?">>, <<",">>, <<" ">>, <<>> >>

\* whether sep stands in text at position p
MatchesAt(text, sep, p) ==
    /\ p + Len(sep) - 1 <= Len(text)
    /\ SubSeq(text, p, p + Len(sep) - 1) = sep

\* re.search(re.escape(sep), text)
Contains(text, sep) == \E p \in 1..Len(text) : MatchesAt(text, sep, p)

\* re.split("(sep)", text) with the separator kept at the head of the piece that
\* follows it: the pieces from position p on, cur being the piece under way
RECURSIVE SplitScan(_, _, _, _, _)
SplitScan(text, sep, p, cur, acc) ==
    IF p > Len(text) THEN Append(acc, cur)
    ELSE IF MatchesAt(text, sep, p)
    THEN SplitScan(text, sep, p + Len(sep), sep, Append(acc, cur))
    ELSE SplitScan(text, sep, p + 1, Append(cur, text[p]), acc)

\* _split_text_with_regex(text, separator, keep_separator=True): the pieces that
\* are not empty; with the empty separator, the characters of the text
SplitWithSeparator(text, sep) ==
    IF sep = <<>>
    THEN [i \in 1..Len(text) |-> << text[i] >>]
    ELSE SelectSeq(SplitScan(text, sep, 1, <<>>, <<>>), LAMBDA x : x # <<>>)

RECURSIVE Concat(_)
Concat(pieces) == IF pieces = <<>> THEN <<>> ELSE Head(pieces) \o Concat(Tail(pieces))

\* _join_docs with the separator "": the pieces joined and stripped, as a list of
\* one fragment, or of none when nothing is left
JoinDocs(pieces) ==
    LET text == Strip(Concat(pieces)) IN IF text = <<>> THEN <<>> ELSE << text >>

\* the while loop of _merge_splits: pieces leave the head of the current fragment
\* until what stays is no longer than the overlap and the next piece fits
RECURSIVE Shrink(_, _, _, _, _)
Shrink(cur, total, len, size, overlap) ==
    IF total > overlap \/ (total + len > size /\ total > 0)
    THEN Shrink(Tail(cur), total - Len(Head(cur)), len, size, overlap)
    ELSE [cur |-> cur, total |-> total]

\* the for loop of _merge_splits (separator "", so separator_len = 0)
RECURSIVE MergeLoop(_, _, _, _, _, _, _)
MergeLoop(splits, i, docs, cur, total, size, overlap) ==
    IF i > Len(splits) THEN docs \o JoinDocs(cur)
    ELSE LET d == splits[i]
             full == total + Len(d) > size /\ Len(cur) > 0
             docs1 == IF full THEN docs \o JoinDocs(cur) ELSE docs
             kept == IF full THEN Shrink(cur, total, Len(d), size, overlap)
                     ELSE [cur |-> cur, total |-> total]
         IN MergeLoop(splits, i + 1, docs1, Append(kept.cur, d), kept.total + Len(d),
                      size, overlap)

\* a merge that joins all the pieces into one fragment
MergeIntoOne(splits, size, overlap) == JoinDocs(splits)

\* _merge_splits(splits, "")
MergeSplits(splits, size, overlap) == MergeLoop(splits, 1, <<>>, <<>>, 0, size, overlap)

\* index in seps of the separator _split_text picks: the first that is empty or
\* occurs in the text
PickSeparator(text, seps) ==
    CHOOSE i \in 1..Len(seps) :
        /\ seps[i] = <<>> \/ Contains(text, seps[i])
        /\ \A j \in 1..(i - 1) : seps[j] # <<>> /\ ~Contains(text, seps[j])

MergedIfAny(good, size, overlap) ==
    IF good = <<>> THEN <<>> ELSE MergeSplits(good, size, overlap)

\* RecursiveCharacterTextSplitter._split_text(text, separators) and its loop over
\* the pieces: short pieces are collected and merged, a piece not shorter than
\* chunk_size is split again with the separators that are left, or kept as it is when
\* none is left
RECURSIVE SplitRecursive(_, _, _, _)
RECURSIVE SplitPieces(_, _, _, _, _, _, _)
SplitPieces(splits, j, good, final, rest, size, overlap) ==
    IF j > Len(splits) THEN final \o MergedIfAny(good, size, overlap)
    ELSE LET piece == splits[j] IN
         IF Len(piece) < size
         THEN SplitPieces(splits, j + 1, Append(good, piece), final, rest, size, overlap)
         ELSE SplitPieces(splits, j + 1, <<>>,
                          final \o MergedIfAny(good, size, overlap)
                                \o (IF rest = <<>> THEN << piece >>
                                    ELSE SplitRecursive(piece, rest, size, overlap)),
                          rest, size, overlap)

SplitRecursive(text, seps, size, overlap) ==
    LET i == PickSeparator(text, seps)
        rest == IF seps[i] = <<>> THEN <<>> ELSE SubSeq(seps, i + 1, Len(seps))
    IN SplitPieces(SplitWithSeparator(text, seps[i]), 1, <<>>, <<>>, rest, size, overlap)

\* text_splitter.split_text(text)
split_text(text, size, overlap) == SplitRecursive(text, Separators, size, overlap)

\* split_text with the configured chunk_size and chunk_overlap
SplitText(t) == split_text(t, chunk_size, chunk_overlap)

RECURSIVE split_documents(_)
split_documents(documents) ==
    IF documents = <<>> THEN <<>>
    ELSE LET d == Head(documents)
             pieces == SplitText(d.page_content)
         IN [i \in 1..Len(pieces) |-> Document(pieces[i], d.source, d.destination)]
            \o split_documents(Tail(documents))

----------------------------------------------------------------------------
(* The FAISS vector store, as RAGSystem uses it *)

\* FAISS.from_documents in create_vector_store: the index is sized from the first
\* embedding, so an empty list of fragments raises IndexError
from_documents(chunks) ==
    IF chunks = <<>>
    THEN [raised |-> "IndexError", store |-> NoStore]
    ELSE [raised |-> "", store |-> Store(CurrentModel, chunks)]

\* FAISS.load_local(path, embeddings, allow_dangerous_deserialization=True):
\* unreadable data raises; readable data is taken as it is, whatever model built it
load_local(d) ==
    IF d.state = "ok"
    THEN [raised |-> "", store |-> Store(d.model, d.chunks)]
    ELSE [raised |-> "RuntimeError", store |-> NoStore]

\* queries: a text about a destination, or a value that cannot be embedded
Topics == {"roma"}
BadText == "<not a text>"
Query(text, synthesized) == [text |-> text, synthesized |-> synthesized]
Queries == { Query(t, FALSE) : t \in Topics \cup {BadText} }

\* L2 distance of a fragment to the query, as the embeddings give it: fragments of
\* the destination asked for are nearest
Distance(q, c) ==
    IF c.destination = NoDestination THEN 1
    ELSE IF c.destination = Title(q.text) THEN 0 ELSE 2

\* position (from 0) of fragment i among the fragments by distance, ties by insertion
Rank(q, cs, i) ==
    Cardinality({ j \in 1..Len(cs) :
                    \/ Distance(q, cs[j]) < Distance(q, cs[i])
                    \/ (Distance(q, cs[j]) = Distance(q, cs[i]) /\ j < i) })

Min(a, b) == IF a < b THEN a ELSE b

\* vector_store.similarity_search(query, k): raises when the query cannot be
\* embedded or its vector has not the dimension of the index; otherwise the
\* min(k, size) nearest fragments, nearest first
similarity_search(vs, q, k) ==
    IF q.text = BadText THEN [raised |-> "TypeError", results |-> <<>>]
    ELSE IF ModelDim(vs.model) # ModelDim(CurrentModel)
    THEN [raised |-> "AssertionError", results |-> <<>>]
    ELSE [raised |-> "",
          results |-> [r \in 1..Min(k, Len(vs.chunks)) |->
                         vs.chunks[CHOOSE i \in 1..Len(vs.chunks) :
                                      Rank(q, vs.chunks, i) = r - 1]]]

----------------------------------------------------------------------------
(* RAGSystem.search *)

\* the pieces of the text search returns
Intro == [t |-> "intro", label |-> "", content |-> <<>>]
Fragment(label, content) == [t |-> "fragment", label |-> label, content |-> content]
Separator == [t |-> "separator", label |-> "", content |-> <<>>]

\* doc.metadata.get("destination", "Desconocido")
Label(doc) == IF doc.destination = NoDestination THEN "Desconocido" ELSE doc.destination

\* the loop that puts "---" after every result, the last one too
RECURSIVE FormatFromTrailing(_, _)
FormatFromTrailing(results, i) ==
    IF i > Len(results) THEN <<>>
    ELSE << Fragment(Label(results[i]), Strip(results[i].page_content)), Separator >>
         \o FormatFromTrailing(results, i + 1)

\* the loop over enumerate(results, 1): source label and stripped content of each
\* result, and "---" after each but the last
RECURSIVE FormatFrom(_, _)
FormatFrom(results, i) ==
    IF i > Len(results) THEN <<>>
    ELSE << Fragment(Label(results[i]), Strip(results[i].page_content)) >>
         \o (IF i < Len(results) THEN << Separator >> ELSE <<>>)
         \o FormatFrom(results, i + 1)

Format(results) == << Intro >> \o FormatFrom(results, 1)

\* what a call of search gives its caller: a text of one of four kinds, or an
\* exception
Returned(kind, text, detail) == [kind |-> kind, text |-> text, detail |-> detail]

\* k = k or self.top_k
EffectiveK(k) == IF k = NoK \/ k = 0 THEN top_k ELSE k

\* the try block of search without its except clause
SearchUnguarded(vs, q, k) ==
    LET r == similarity_search(vs, q, EffectiveK(k)) IN
    IF r.raised # "" THEN Returned("raised", <<>>, r.raised)
    ELSE IF r.results = <<>> THEN Returned("no_information", <<>>, "")
    ELSE Returned("context", Format(r.results), "")

\* the try/except of search
SearchGuarded(vs, q, k) ==
    LET r == similarity_search(vs, q, EffectiveK(k)) IN
    IF r.raised # "" THEN Returned("error", <<>>, r.raised)
    ELSE IF r.results = <<>> THEN Returned("no_information", <<>>, "")
    ELSE Returned("context", Format(r.results), "")

search(vs, q, k) ==
    IF ~vs.present THEN Returned("not_initialized", <<>>, "")
    ELSE SearchGuarded(vs, q, k)

\* search_by_destination: a broad query naming the destination, and k = 5
Destinations == {"roma", "tokio"}
search_by_destination_default_k(vs, destination) ==
    search(vs, Query(destination, TRUE), NoK)
search_by_destination(vs, destination) ==
    search(vs, Query(destination, TRUE), DestinationK)

\* str.lower() of a destination name
Lower(name) == CASE name = "Roma" -> "roma" [] OTHER -> name

\* the length get_destination_summary cuts a file to
SummaryLimit == 1000

\* content[:1000] + "..." if len(content) > 1000 else content
Summarize(content) ==
    IF Len(content) > SummaryLimit
    THEN SubSeq(content, 1, SummaryLimit) \o <<".", ".", ".">>
    ELSE content

\* the entries of the directory named <destination.lower()>.txt
SummaryFiles(exists, ls, destination) ==
    IF exists
    THEN { i \in 1..Len(ls) : ls[i].stem = Lower(destination) /\ ls[i].ext = ".txt" }
    ELSE {}

\* get_destination_summary: the head of the destination's file when there is one,
\* a text naming the error when it cannot be read, and search_by_destination when
\* there is no such file
SummaryDestinations == {"Roma", "tokio"}
get_destination_summary(exists, ls, vs, destination) ==
    LET found == SummaryFiles(exists, ls, destination) IN
    IF found # {}
    THEN LET f == ls[CHOOSE i \in found : TRUE] IN
         IF f.readable
         THEN Returned("summary", Summarize(f.content), "")
         ELSE Returned("read_error", <<>>, "OSError")
    ELSE search_by_destination(vs, destination)

----------------------------------------------------------------------------
(* State *)

VARIABLES
    kbExists,     \* os.path.exists(knowledge_base_path)
    listing,      \* os.listdir(knowledge_base_path)
    embedderOK,   \* whether HuggingFaceEmbeddings(...) can be constructed
    disk,         \* data/faiss_index
    cache,        \* what st.cache_resource holds for initialize_rag
    lock,         \* the session computing initialize_rag's value, if any
    pc,           \* where each session's script run stands
    obj,          \* the RAGSystem a session is constructing
    handle,       \* rag_system in main(): the service a run obtained
    documents,    \* documents in load_or_create_vector_store
    chunks,       \* chunks in load_or_create_vector_store
    failedFiles,  \* the files load_documents reported as not loaded
    err,          \* the exception that ended a run's construction
    steps,        \* what the construction of the current run has done so far
    lifecycle,    \* Uninitialized, Loading, Ready or Failed
    completed,    \* how many constructions have completed (counted up to 2)
    lastCall,     \* the last search call and what it returned
    splitInput,   \* a text given to the text splitter, with chunk_size and chunk_overlap
    splitOutput   \* the fragments the text splitter returned for it

vars == << kbExists, listing, embedderOK, disk, cache, lock, pc, obj, handle,
           documents, chunks, failedFiles, err, steps, lifecycle, completed, lastCall,
           splitInput, splitOutput >>

env == << kbExists, listing, embedderOK, splitInput, splitOutput >>

\* the splitter as RAGSystem.__init__ configures it, before it is given a text
ConfiguredSplit == [text |-> <<>>, size |-> chunk_size, overlap |-> chunk_overlap]
NotSplit == [done |-> FALSE, fragments |-> <<>>]

\* a RAGSystem instance, by its vector_store field; NoInstance: no instance at all
Instance(vs) == [exists |-> TRUE, vector_store |-> vs]
NoInstance == [exists |-> FALSE, vector_store |-> NoStore]

NoCall == [op |-> "none", q |-> Query("roma", FALSE), k |-> NoK, size |-> 0,
           out |-> Returned("none", <<>>, "")]

\* the pc values inside RAGSystem()
Constructing ==
    {"ctor", "lcvs", "load_docs", "check_docs", "split", "create", "save", "ctor_done"}

Init ==
    /\ kbExists \in BOOLEAN
    /\ listing \in (IF kbExists THEN Listings ELSE {<<>>})
    /\ embedderOK \in BOOLEAN
    /\ disk \in InitialDisks
    /\ cache = NoInstance
    /\ lock = NoSession
    /\ pc = [s \in Sessions |-> "idle"]
    /\ obj = [s \in Sessions |-> NoInstance]
    /\ handle = [s \in Sessions |-> NoInstance]
    /\ documents = [s \in Sessions |-> <<>>]
    /\ chunks = [s \in Sessions |-> <<>>]
    /\ failedFiles = [s \in Sessions |-> <<>>]
    /\ err = [s \in Sessions |-> ""]
    /\ steps = [s \in Sessions |-> <<>>]
    /\ lifecycle = "Uninitialized"
    /\ completed = 0
    /\ lastCall = NoCall
    /\ splitInput = ConfiguredSplit
    /\ splitOutput = NotSplit

----------------------------------------------------------------------------
(* app.py: a script run of main() up to initialize_rag() *)

\* the browser session triggers a run of the script; main() calls initialize_rag()
Request(s) ==
    /\ pc[s] = "idle"
    /\ pc' = [pc EXCEPT ![s] = "init_rag"]
    /\ UNCHANGED << env, disk, cache, lock, obj, handle, documents, chunks,
                    failedFiles, err, steps, lifecycle, completed, lastCall >>

\* st.cache_resource, first look: a cached instance is returned at once
CacheHit(s) ==
    /\ pc[s] = "init_rag"
    /\ cache.exists
    /\ handle' = [handle EXCEPT ![s] = cache]
    /\ pc' = [pc EXCEPT ![s] = "have"]
    /\ UNCHANGED << env, disk, cache, lock, obj, documents, chunks, failedFiles,
                    err, steps, lifecycle, completed, lastCall >>

\* st.cache_resource, first look: nothing cached, the run goes for the lock that
\* guards the computation of the value
CacheMiss(s) ==
    /\ pc[s] = "init_rag"
    /\ ~cache.exists
    /\ pc' = [pc EXCEPT ![s] = "wait_lock"]
    /\ UNCHANGED << env, disk, cache, lock, obj, handle, documents, chunks,
                    failedFiles, err, steps, lifecycle, completed, lastCall >>

\* no session is computing the value
LockFreeAlways(s) == TRUE
LockFree(s) == lock = NoSession

\* the lock is taken and, nothing being cached still, RAGSystem() is called
BeginConstruction(s) ==
    /\ pc[s] = "wait_lock"
    /\ LockFree(s)
    /\ ~cache.exists
    /\ lock' = s
    /\ pc' = [pc EXCEPT ![s] = "ctor"]
    /\ lifecycle' = "Loading"
    /\ UNCHANGED << env, disk, cache, obj, handle, documents, chunks, failedFiles,
                    err, steps, completed, lastCall >>

\* the lock is taken and another run has cached the instance meanwhile
LateCacheHit(s) ==
    /\ pc[s] = "wait_lock"
    /\ LockFree(s)
    /\ cache.exists
    /\ handle' = [handle EXCEPT ![s] = cache]
    /\ pc' = [pc EXCEPT ![s] = "have"]
    /\ UNCHANGED << env, disk, cache, lock, obj, documents, chunks, failedFiles,
                    err, steps, lifecycle, completed, lastCall >>

----------------------------------------------------------------------------
(* rag_system.py: RAGSystem() *)

\* an exception leaves RAGSystem() and initialize_rag(): nothing is cached, the
\* lock is released, and main() catches it
Raise(s, e) ==
    /\ pc' = [pc EXCEPT ![s] = "error"]
    /\ err' = [err EXCEPT ![s] = e]
    /\ lock' = IF lock = s THEN NoSession ELSE lock
    /\ obj' = [obj EXCEPT ![s] = NoInstance]
    /\ documents' = [documents EXCEPT ![s] = <<>>]
    /\ chunks' = [chunks EXCEPT ![s] = <<>>]
    /\ failedFiles' = [failedFiles EXCEPT ![s] = <<>>]
    /\ lifecycle' = "Failed"

Did(s, what) == steps' = [steps EXCEPT ![s] = Append(@, what)]

\* __init__ up to self.vector_store = None
Construct(s) ==
    /\ pc[s] = "ctor"
    /\ IF embedderOK
       THEN /\ obj' = [obj EXCEPT ![s] = Instance(NoStore)]
            /\ pc' = [pc EXCEPT ![s] = "lcvs"]
            /\ UNCHANGED << lock, documents, chunks, failedFiles, err, lifecycle >>
       ELSE Raise(s, "EmbeddingError")
    /\ UNCHANGED << env, disk, cache, handle, steps, completed, lastCall >>

\* where load_or_create_vector_store goes after a load that succeeded: it returns
LoadedFallsThrough == "load_docs"
AfterLoad == "ctor_done"

\* load_or_create_vector_store, the attempt to load data/faiss_index
LoadIndex(s) ==
    /\ pc[s] = "lcvs"
    /\ IF disk.state = "absent"
       THEN /\ Did(s, "no_index")
            /\ pc' = [pc EXCEPT ![s] = "load_docs"]
            /\ obj' = obj
       ELSE LET r == load_local(disk) IN
            IF r.raised = ""
            THEN /\ Did(s, "load_ok")
                 /\ obj' = [obj EXCEPT ![s] = Instance(r.store)]
                 /\ pc' = [pc EXCEPT ![s] = AfterLoad]
            ELSE /\ Did(s, "load_failed")
                 /\ pc' = [pc EXCEPT ![s] = "load_docs"]
                 /\ obj' = obj
    /\ UNCHANGED << env, disk, cache, lock, handle, documents, chunks, failedFiles,
                    err, lifecycle, completed, lastCall >>

\* if not os.path.exists(self.knowledge_base_path)
DirectoryNeverMissing(exists) == FALSE
DirectoryMissing(exists) == ~exists

\* documents = self.load_documents()
LoadDocuments(s) ==
    /\ pc[s] = "load_docs"
    /\ IF DirectoryMissing(kbExists)
       THEN /\ Raise(s, "FileNotFoundError")
            /\ steps' = steps
       ELSE LET r == load_documents(listing) IN
            /\ documents' = [documents EXCEPT ![s] = r.documents]
            /\ failedFiles' = [failedFiles EXCEPT ![s] = r.failed]
            /\ Did(s, "load_documents")
            /\ pc' = [pc EXCEPT ![s] = "check_docs"]
            /\ UNCHANGED << lock, obj, chunks, err, lifecycle >>
    /\ UNCHANGED << env, disk, cache, handle, completed, lastCall >>

\* if not documents: raise ValueError
CheckDocuments(s) ==
    /\ pc[s] = "check_docs"
    /\ IF documents[s] = <<>>
       THEN Raise(s, "ValueError")
       ELSE /\ pc' = [pc EXCEPT ![s] = "split"]
            /\ UNCHANGED << lock, obj, documents, chunks, failedFiles, err, lifecycle >>
    /\ UNCHANGED << env, disk, cache, handle, steps, completed, lastCall >>

\* chunks = self.split_documents(documents)
SplitDocuments(s) ==
    /\ pc[s] = "split"
    /\ chunks' = [chunks EXCEPT ![s] = split_documents(documents[s])]
    /\ Did(s, "split")
    /\ pc' = [pc EXCEPT ![s] = "create"]
    /\ UNCHANGED << env, disk, cache, lock, obj, handle, documents, failedFiles,
                    err, lifecycle, completed, lastCall >>

\* self.create_vector_store(chunks)
CreateVectorStore(s) ==
    /\ pc[s] = "create"
    /\ LET r == from_documents(chunks[s]) IN
       IF r.raised # ""
       THEN /\ Raise(s, r.raised)
            /\ steps' = steps
       ELSE /\ obj' = [obj EXCEPT ![s] = Instance(r.store)]
            /\ Did(s, "build")
            /\ pc' = [pc EXCEPT ![s] = "save"]
            /\ UNCHANGED << lock, documents, chunks, failedFiles, err, lifecycle >>
    /\ UNCHANGED << env, disk, cache, handle, completed, lastCall >>

\* except Exception around the save: the failure is printed and construction goes on
SaveFailurePropagates(s) ==
    /\ Raise(s, "OSError")
    /\ Did(s, "save_failed")
SaveFailureHandled(s) ==
    /\ Did(s, "save_failed")
    /\ pc' = [pc EXCEPT ![s] = "ctor_done"]
    /\ UNCHANGED << lock, obj, documents, chunks, failedFiles, err, lifecycle >>

\* os.makedirs("data") and self.vector_store.save_local(path): the index is written,
\* or the write is refused, or it breaks off and leaves unreadable data
SaveLocal(s) ==
    /\ pc[s] = "save"
    /\ \E outcome \in {"saved", "refused", "partial"} :
         IF outcome = "saved"
         THEN /\ disk' = DiskIndex(obj[s].vector_store.model, obj[s].vector_store.chunks)
              /\ Did(s, "save")
              /\ pc' = [pc EXCEPT ![s] = "ctor_done"]
              /\ UNCHANGED << lock, obj, documents, chunks, failedFiles, err, lifecycle >>
         ELSE /\ disk' = IF outcome = "partial" THEN DiskCorrupt ELSE disk
              /\ SaveFailureHandled(s)
    /\ UNCHANGED << env, cache, handle, completed, lastCall >>

\* __init__ returns; st.cache_resource stores the instance, releases the lock and
\* hands the instance to the run
FinishConstruction(s) ==
    /\ pc[s] = "ctor_done"
    /\ cache' = obj[s]
    /\ handle' = [handle EXCEPT ![s] = obj[s]]
    /\ lock' = IF lock = s THEN NoSession ELSE lock
    /\ obj' = [obj EXCEPT ![s] = NoInstance]
    /\ documents' = [documents EXCEPT ![s] = <<>>]
    /\ chunks' = [chunks EXCEPT ![s] = <<>>]
    /\ failedFiles' = [failedFiles EXCEPT ![s] = <<>>]
    /\ lifecycle' = "Ready"
    /\ completed' = IF completed < 2 THEN completed + 1 ELSE completed
    /\ steps' = [steps EXCEPT ![s] = <<>>]
    /\ pc' = [pc EXCEPT ![s] = "have"]
    /\ UNCHANGED << env, disk, err, lastCall >>

----------------------------------------------------------------------------
(* app.py: the rest of a script run *)

\* main(): except Exception -> st.error(...), st.stop(): the run ends without a
\* service
StartupError(s) ==
    /\ pc[s] = "error"
    /\ pc' = [pc EXCEPT ![s] = "idle"]
    /\ err' = [err EXCEPT ![s] = ""]
    /\ steps' = [steps EXCEPT ![s] = <<>>]
    /\ UNCHANGED << env, disk, cache, lock, obj, handle, documents, chunks,
                    failedFiles, lifecycle, completed, lastCall >>

Called(op, vs, q, k, out) ==
    [op |-> op, q |-> q, k |-> k, size |-> Len(vs.chunks), out |-> out]

\* a search that forgets the index when the similarity search raised
SearchForgetting(s, q, k) ==
    /\ pc[s] = "have"
    /\ LET vs == handle[s].vector_store
           out == search(vs, q, k)
           after == IF out.kind = "error" THEN Instance(NoStore) ELSE cache
       IN /\ lastCall' = Called("search", vs, q, k, out)
          /\ cache' = after
          /\ handle' = [t \in Sessions |-> IF handle[t].exists THEN after ELSE handle[t]]
    /\ UNCHANGED << env, disk, lock, pc, obj, documents, chunks,
                    failedFiles, err, steps, lifecycle, completed >>

\* a caller holding the service calls search(query) or search(query, k)
Search(s, q, k) ==
    /\ pc[s] = "have"
    /\ LET vs == handle[s].vector_store IN
       lastCall' = Called("search", vs, q, k, search(vs, q, k))
    /\ UNCHANGED << env, disk, cache, lock, pc, obj, handle, documents, chunks,
                    failedFiles, err, steps, lifecycle, completed >>

\* generate_itinerary: rag_system.search_by_destination(destination)
SearchByDestination(s, d) ==
    /\ pc[s] = "have"
    /\ LET vs == handle[s].vector_store IN
       lastCall' = Called("search_by_destination", vs, Query(d, TRUE), DestinationK,
                          search_by_destination(vs, d))
    /\ UNCHANGED << env, disk, cache, lock, pc, obj, handle, documents, chunks,
                    failedFiles, err, steps, lifecycle, completed >>

\* a caller holding the service calls get_destination_summary(destination)
GetDestinationSummary(s, d) ==
    /\ pc[s] = "have"
    /\ LET vs == handle[s].vector_store IN
       lastCall' = Called("get_destination_summary", vs, Query(d, TRUE), DestinationK,
                          get_destination_summary(kbExists, listing, vs, d))
    /\ UNCHANGED << env, disk, cache, lock, pc, obj, handle, documents, chunks,
                    failedFiles, err, steps, lifecycle, completed >>

\* the script run ends
EndRun(s) ==
    /\ pc[s] = "have"
    /\ pc' = [pc EXCEPT ![s] = "idle"]
    /\ handle' = [handle EXCEPT ![s] = NoInstance]
    /\ UNCHANGED << env, disk, cache, lock, obj, documents, chunks, failedFiles,
                    err, steps, lifecycle, completed, lastCall >>

----------------------------------------------------------------------------

KValues == {NoK} \cup (0..MaxK)

Next ==
    \E s \in Sessions :
        \/ Request(s)
        \/ CacheHit(s)
        \/ CacheMiss(s)
        \/ BeginConstruction(s)
        \/ LateCacheHit(s)
        \/ Construct(s)
        \/ LoadIndex(s)
        \/ LoadDocuments(s)
        \/ CheckDocuments(s)
        \/ SplitDocuments(s)
        \/ CreateVectorStore(s)
        \/ SaveLocal(s)
        \/ FinishConstruction(s)
        \/ StartupError(s)
        \/ \E q \in Queries, k \in KValues : Search(s, q, k)
        \/ \E d \in Destinations : SearchByDestination(s, d)
        \/ \E d \in SummaryDestinations : GetDestinationSummary(s, d)
        \/ EndRun(s)

Spec == Init /\ [][Next]_vars

\* ---------------------------------------------------------------------------
\* The text splitter on its own: split_documents applied to one document text,
\* for every text over SplitChars up to MaxText characters and every chunk_size
\* up to MaxSize with an overlap the splitter accepts (chunk_overlap <= chunk_size)

MaxText == 4
MaxSize == 3

SplitChars == {"a", "b", " ", "\n"}

RECURSIVE TextsOfLen(_)
TextsOfLen(n) ==
    IF n = 0 THEN {<<>>}
    ELSE { Append(t, c) : t \in TextsOfLen(n - 1), c \in SplitChars }

Texts == UNION { TextsOfLen(n) : n \in 0..MaxText }

SplitInit ==
    /\ kbExists = FALSE
    /\ listing = <<>>
    /\ embedderOK = TRUE
    /\ disk = DiskAbsent
    /\ cache = NoInstance
    /\ lock = NoSession
    /\ pc = [s \in Sessions |-> "idle"]
    /\ obj = [s \in Sessions |-> NoInstance]
    /\ handle = [s \in Sessions |-> NoInstance]
    /\ documents = [s \in Sessions |-> <<>>]
    /\ chunks = [s \in Sessions |-> <<>>]
    /\ failedFiles = [s \in Sessions |-> <<>>]
    /\ err = [s \in Sessions |-> ""]
    /\ steps = [s \in Sessions |-> <<>>]
    /\ lifecycle = "Uninitialized"
    /\ completed = 0
    /\ lastCall = NoCall
    /\ \E text \in Texts, size \in 1..MaxSize :
          \E overlap \in 0..size :
              splitInput = [text |-> text, size |-> size, overlap |-> overlap]
    /\ splitOutput = NotSplit

\* split_documents on the document: the fragments of its text
SplitDocumentText ==
    /\ ~splitOutput.done
    /\ splitOutput' = [done |-> TRUE,
                       fragments |-> split_text(splitInput.text, splitInput.size,
                                                splitInput.overlap)]
    /\ UNCHANGED << kbExists, listing, embedderOK, disk, cache, lock, pc, obj, handle,
                    documents, chunks, failedFiles, err, steps, lifecycle, completed,
                    lastCall, splitInput >>

SplitNext == SplitDocumentText

SplitSpec == SplitInit /\ [][SplitNext]_vars

----------------------------------------------------------------------------
(* Properties *)

Last(t) == t[Len(t)]

IsPrefix(a, b) == Len(a) <= Len(b) /\ a = SubSeq(b, 1, Len(a))

\* the construction of session s went past the load attempt into the rebuild
Rebuilding(s) == steps[s] # <<>> /\ steps[s][1] \in {"no_index", "load_failed"}

TextKinds == {"context", "no_information", "not_initialized", "error"}

\* C1: after a construction that failed, the run still holds a service, and every
\* search on it returns the "not initialized" text.
C1_FailedServiceQueryable ==
    \A s \in Sessions :
        pc[s] = "error" =>
            /\ handle[s].exists
            /\ \A q \in Queries, k \in KValues :
                   search(handle[s].vector_store, q, k).kind = "not_initialized"

\* C2: when the persisted index is missing or its load fails, construction goes on
\* with load documents, split, build, save, in this order, and a failed save leaves
\* the construction complete with the built index in memory.
C2_LoadFailureRebuilds ==
    \A s \in Sessions :
        /\ Rebuilding(s) =>
              /\ \E saved \in {"save", "save_failed"} :
                    IsPrefix(Tail(steps[s]), <<"load_documents", "split", "build", saved>>)
              /\ (Len(steps[s]) = 1 => pc[s] \in {"load_docs", "error"})
              /\ (pc[s] = "error" => err[s] \notin {"RuntimeError", "OSError"})
        /\ (steps[s] # <<>> /\ Last(steps[s]) \in {"save", "save_failed"}) =>
              /\ pc[s] = "ctor_done"
              /\ err[s] = ""
              /\ obj[s].exists /\ obj[s].vector_store.present
              /\ obj[s].vector_store.chunks = chunks[s]

C2_Witness ==
    \E s \in Sessions :
        /\ pc[s] = "ctor_done"
        /\ steps[s] = <<"load_failed", "load_documents", "split", "build", "save_failed">>

\* C3: Ready is entered only from Loading and with an index in memory, and once the
\* service is Failed it stays Failed.
C3_FailedIsTerminal ==
    [][ /\ (lifecycle = "Failed" => lifecycle' = "Failed")
        /\ (lifecycle # "Ready" /\ lifecycle' = "Ready" =>
               lifecycle = "Loading" /\ cache'.vector_store.present) ]_vars

\* C4: whatever the query and k, and whether or not the similarity search raises,
\* a search on a service a caller holds returns one of the four kinds of text.
C4_SearchReturnsText ==
    /\ lastCall.op \in {"search", "search_by_destination"} =>
          lastCall.out.kind \in TextKinds
    /\ \A s \in Sessions :
          handle[s].exists =>
              \A q \in Queries, k \in KValues :
                  search(handle[s].vector_store, q, k).kind \in TextKinds

C4_Witness ==
    /\ lastCall.op = "search"
    /\ lastCall.k = MaxK
    /\ lastCall.out.kind = "error"
    /\ lastCall.out.detail = "AssertionError"

\* the fragments of a returned text, in the order of the text
FragmentsOf(text) == SelectSeq(text, LAMBDA x : x.t = "fragment")

\* distance to the query of the fragment a label stands for
LabelDistance(q, label) ==
    IF label = "Desconocido" THEN 1 ELSE IF label = Title(q.text) THEN 0 ELSE 2

\* C5: a search with an explicit k >= 0 returns at most min(k, corpus size)
\* fragments, nearest first; k = 0 returns none.
C5_KBound ==
    (lastCall.op = "search" /\ lastCall.k # NoK) =>
        LET fs == FragmentsOf(lastCall.out.text) IN
        /\ Len(fs) <= Min(lastCall.k, lastCall.size)
        /\ \A i \in 1..(Len(fs) - 1) :
              LabelDistance(lastCall.q, fs[i].label) <= LabelDistance(lastCall.q, fs[i + 1].label)

\* C6: with the knowledge-base directory missing, a construction that reaches
\* load_or_create_vector_store never completes, and fails with the not-found error.
C6_MissingDirectoryAlwaysNotFound ==
    ~kbExists =>
        /\ ~cache.exists
        /\ \A s \in Sessions :
              /\ pc[s] # "ctor_done"
              /\ (pc[s] = "error" /\ steps[s] # <<>> => err[s] = "FileNotFoundError")

\* C6, amended: with the knowledge-base directory missing, a construction that
\* finds no persisted index or cannot load it fails with the not-found error before
\* anything is built; a construction that completes has loaded the persisted index
\* and done nothing else.
C6_MissingDirectoryNotFoundUnlessLoaded ==
    ~kbExists =>
        \A s \in Sessions :
            /\ Rebuilding(s) =>
                  /\ Len(steps[s]) = 1
                  /\ pc[s] \in {"load_docs", "error"}
                  /\ (pc[s] = "error" => err[s] = "FileNotFoundError")
                  /\ ~obj[s].vector_store.present
            /\ (pc[s] = "error" /\ steps[s] # <<>> => Rebuilding(s))
            /\ (pc[s] = "ctor_done" => steps[s] = <<"load_ok">> /\ disk.state = "ok")

C6_Witness ==
    \E s \in Sessions :
        /\ ~kbExists
        /\ pc[s] = "error"
        /\ err[s] = "FileNotFoundError"
        /\ steps[s] = <<"load_failed">>

\* the members of a sequence
Range(t) == { t[i] : i \in 1..Len(t) }

\* C7: a rebuild over a corpus that gives no documents or no fragments fails with
\* the empty-corpus error (ValueError), builds no index and saves nothing.
C7_EmptyCorpusError ==
    \A s \in Sessions :
        ( /\ Rebuilding(s)
          /\ kbExists
          /\ split_documents(load_documents(listing).documents) = <<>> ) =>
            /\ pc[s] \notin {"save", "ctor_done"}
            /\ (pc[s] = "error" => err[s] = "ValueError")
            /\ Range(steps[s]) \cap {"build", "save", "save_failed"} = {}
            /\ ~obj[s].vector_store.present

\* the files load_documents is to load, and those it is to report
Eligible(f) == f.ext = ".txt" /\ f.readable
Unreadable(f) == f.ext = ".txt" /\ ~f.readable

\* C8: on an existing directory load_documents returns one Document for each
\* readable .txt file, in directory order, skips the other entries, reports each
\* .txt file it cannot read and goes on; it raises for no listing, also not for one
\* without eligible files.
C8_LoadDocuments ==
    \A s \in Sessions :
        /\ pc[s] = "check_docs" =>
              LET good == SelectSeq(listing, Eligible)
                  bad == SelectSeq(listing, Unreadable)
              IN /\ Len(documents[s]) = Len(good)
                 /\ \A i \in 1..Len(good) :
                       /\ documents[s][i].page_content = good[i].content
                       /\ documents[s][i].source = <<good[i].stem, ".txt">>
                       /\ documents[s][i].destination = Title(good[i].stem)
                 /\ Len(failedFiles[s]) = Len(bad)
                 /\ \A i \in 1..Len(bad) : failedFiles[s][i] = <<bad[i].stem, ".txt">>
        /\ (kbExists /\ Rebuilding(s) /\ Len(steps[s]) = 1) => pc[s] = "load_docs"

C8_Witness ==
    \E s \in Sessions :
        /\ pc[s] = "check_docs"
        /\ Len(listing) = 2
        /\ ~listing[1].readable
        /\ Len(documents[s]) = 1
        /\ Len(failedFiles[s]) = 1

\* C9: the index of a Ready service was built with the configured embedding model.
C9_ReadyIndexOfConfiguredModel ==
    /\ cache.exists => cache.vector_store.model = CurrentModel
    /\ \A s \in Sessions : handle[s].exists => handle[s].vector_store.model = CurrentModel

\* C10: at most one session is inside RAGSystem() at any time, at most one
\* construction ever completes, and a service a run holds is the cached one, with
\* its index in memory.
C10_SingleConstruction ==
    /\ Cardinality({ s \in Sessions : pc[s] \in Constructing }) <= 1
    /\ \A s \in Sessions : pc[s] \in Constructing => lock = s
    /\ completed <= 1
    /\ cache.exists => cache.vector_store.present
    /\ \A s \in Sessions :
          handle[s].exists => handle[s] = cache /\ handle[s].vector_store.present

C10_Witness ==
    \E s, t \in Sessions :
        /\ pc[s] = "save"
        /\ pc[t] = "wait_lock"

\* C11: a construction whose load of the persisted index succeeds does nothing
\* else: no documents are loaded, nothing is split, built or saved, the instance
\* holds the index as loaded, and data/faiss_index stays as it was.
C11_LoadSkipsRebuild ==
    [][ \A s \in Sessions :
          /\ (steps'[s] # <<>> /\ steps'[s][1] = "load_ok") =>
                /\ steps'[s] = <<"load_ok">>
                /\ pc'[s] = "ctor_done"
                /\ disk.state = "ok"
                /\ disk' = disk
                /\ documents'[s] = <<>> /\ chunks'[s] = <<>> /\ failedFiles'[s] = <<>>
                /\ obj'[s] = Instance(Store(disk.model, disk.chunks))
          /\ (steps[s] # <<>> /\ steps[s][1] = "load_ok") => disk' = disk ]_vars

C11_Witness ==
    \E s \in Sessions :
        /\ pc[s] = "ctor_done"
        /\ steps[s] = <<"load_ok">>
        /\ kbExists
        /\ load_documents(listing).documents # <<>>

\* C12: once an instance is cached, no step changes it or data/faiss_index, a run
\* keeps the instance it holds as it is, and a call of search,
\* search_by_destination or get_destination_summary changes nothing but what it
\* returns.
C12_IndexReadOnly ==
    [][ /\ (cache.exists => cache' = cache /\ disk' = disk)
        /\ \A s \in Sessions :
              (handle[s].exists /\ handle'[s].exists) => handle'[s] = handle[s]
        /\ (lastCall' # lastCall) =>
              /\ cache' = cache /\ handle' = handle /\ disk' = disk
              /\ kbExists' = kbExists /\ listing' = listing ]_vars

C12_Witness ==
    /\ cache.exists
    /\ lastCall.op = "get_destination_summary"
    /\ lastCall.out.kind = "context"
    /\ \E s \in Sessions : handle[s] = cache

\* whether the characters of text at positions a .. b - 1 are all whitespace
OnlySpace(text, a, b) == \A p \in a..(b - 1) : IsSpace(text[p])

\* whether the fragments i, i + 1, ... stand in text in this order, fragment i at
\* position from or later, and leave out no character at position next or later;
\* with lax, no character other than whitespace
RECURSIVE Covers(_, _, _, _, _, _)
Covers(text, frags, i, from, next, lax) ==
    IF i > Len(frags)
    THEN IF lax THEN OnlySpace(text, next, Len(text) + 1) ELSE next > Len(text)
    ELSE \E p \in from..Len(text) :
            /\ MatchesAt(text, frags[i], p)
            /\ IF lax THEN OnlySpace(text, next, p) ELSE p <= next
            /\ Covers(text, frags, i + 1, p,
                      IF p + Len(frags[i]) > next THEN p + Len(frags[i]) ELSE next, lax)

FragmentsWithinSize ==
    \A i \in 1..Len(splitOutput.fragments) :
        Len(splitOutput.fragments[i]) <= splitInput.size

C14_DestinationSearchDelegates ==
    /\ lastCall.op = "search_by_destination" =>
          /\ lastCall.q.synthesized
          /\ lastCall.q.text \in Destinations
          /\ lastCall.out = search(cache.vector_store, lastCall.q, DestinationK)
          /\ (lastCall.out.kind = "context" =>
                Len(FragmentsOf(lastCall.out.text)) = Min(DestinationK, lastCall.size))
    /\ \A d \in Destinations, vs \in {NoStore, cache.vector_store} :
          search_by_destination(vs, d) = search(vs, Query(d, TRUE), DestinationK)
    /\ (top_k < DestinationK => EffectiveK(DestinationK) > EffectiveK(NoK))

C14_Witness ==
    /\ lastCall.op = "search_by_destination"
    /\ lastCall.out.kind = "context"
    /\ Len(FragmentsOf(lastCall.out.text)) > top_k

\* C15: a search whose similarity search gives n >= 1 results returns the heading
\* and then the n results in order, each as its label ("Desconocido" without a
\* destination) and its stripped content, with one separator between two
\* consecutive results and none after the last; with no result it returns the
\* "no information" text.
C15_ContextLayout ==
    lastCall.op \in {"search", "search_by_destination"} =>
        LET r == similarity_search(cache.vector_store, lastCall.q, EffectiveK(lastCall.k))
            n == Len(r.results)
            t == lastCall.out.text
        IN r.raised = "" =>
             /\ (n = 0 => lastCall.out.kind = "no_information" /\ t = <<>>)
             /\ (n >= 1 =>
                   /\ lastCall.out.kind = "context"
                   /\ Len(t) = 2 * n
                   /\ t[1].t = "intro"
                   /\ \A i \in 1..n :
                         /\ t[2 * i].t = "fragment"
                         /\ t[2 * i].label =
                               (IF r.results[i].destination = NoDestination
                                THEN "Desconocido" ELSE r.results[i].destination)
                         /\ t[2 * i].content = Strip(r.results[i].page_content)
                         /\ (i < n => t[2 * i + 1].t = "separator"))

C15_Witness ==
    /\ lastCall.op = "search"
    /\ lastCall.out.kind = "context"
    /\ Len(lastCall.out.text) = 6
    /\ lastCall.out.text[6].label = "Desconocido"

====
